---- MODULE Spec2Model ----
(***************************************************************************)
(* A model of services/web-ui/server.py: a static file server built from   *)
(* socketserver.TCPServer and a SimpleHTTPRequestHandler subclass that      *)
(* adds three CORS headers in end_headers and answers OPTIONS.              *)
(*                                                                         *)
(* The program's own code is lines 10-37 of server.py.  Everything it       *)
(* inherits (request parsing, path translation, file serving, the accept   *)
(* loop) is the behaviour of the Python 3.11 standard library classes it    *)
(* names, and is modelled here as those classes compute it.                 *)
(***************************************************************************)
EXTENDS Integers, Sequences, FiniteSets, TLC

\* Number of client connections made during a run.
MaxConns == 2

\* server.py line 22
PORT == 8080

Conns == 1..MaxConns

------------------------------------------------------------------------------
(* Filesystem.  Absolute paths are sequences of names; <<>> is the root.   *)

\* os.path.dirname(os.path.abspath(__file__)): the directory holding server.py
WebDir == <<"srv", "web-ui">>

\* Directories the process may be started from (its initial working directory).
LaunchDirs == {WebDir, <<"home", "dev">>, <<>>}

IsPrefix(p, q) == Len(p) <= Len(q) /\ SubSeq(q, 1, Len(p)) = p

\* File contents are byte sequences.
IndexHtmlBytes == <<60, 104, 49, 62, 13, 10>>
ServerPyBytes == <<35, 33, 47>>
DocsIndexBytes == <<60, 112, 62>>
AppJsBytes == <<118, 97, 114, 59>>
SecretBytes == <<1, 2>>
PasswdBytes == <<114, 111, 111, 116, 58>>
HomeNotesBytes == <<110, 111, 116, 101>>

Dirs ==
    { <<>>, <<"srv">>, WebDir, WebDir \o <<"docs">>, WebDir \o <<"assets">>,
      <<"etc">>, <<"home">>, <<"home", "dev">> }

Files ==
    { WebDir \o <<"index.html">>, WebDir \o <<"server.py">>,
      WebDir \o <<"docs", "index.html">>, WebDir \o <<"assets", "app.js">>,
      WebDir \o <<"locked.bin">>,
      <<"etc", "passwd">>, <<"home", "dev", "notes">> }

\* Files the server process has no permission to open.
Unreadable == { WebDir \o <<"locked.bin">> }

FileBytes(p) ==
    CASE p = WebDir \o <<"index.html">> -> IndexHtmlBytes
      [] p = WebDir \o <<"server.py">> -> ServerPyBytes
      [] p = WebDir \o <<"docs", "index.html">> -> DocsIndexBytes
      [] p = WebDir \o <<"assets", "app.js">> -> AppJsBytes
      [] p = WebDir \o <<"locked.bin">> -> SecretBytes
      [] p = <<"etc", "passwd">> -> PasswdBytes
      [] p = <<"home", "dev", "notes">> -> HomeNotesBytes
      [] OTHER -> <<>>

\* The kernel's resolution of a path that may still hold "." and "..".
RECURSIVE OsResolveFrom(_, _)
OsResolveFrom(done, rest) ==
    IF rest = <<>> THEN done
    ELSE LET w == Head(rest) IN
         IF w = "." THEN OsResolveFrom(done, Tail(rest))
         ELSE IF w = ".."
              THEN OsResolveFrom(IF done = <<>> THEN <<>>
                                 ELSE SubSeq(done, 1, Len(done) - 1), Tail(rest))
              ELSE OsResolveFrom(Append(done, w), Tail(rest))

OsResolve(p) == OsResolveFrom(<<>>, p)

\* A translated path: the names and whether the string ends with "/".
IsDir(fp) == OsResolve(fp.segs) \in Dirs
\* os.path.isfile / open(): a trailing "/" on a regular file is ENOTDIR.
IsFile(fp) == OsResolve(fp.segs) \in Files /\ ~fp.slash
CanOpen(fp) == IsFile(fp) /\ OsResolve(fp.segs) \notin Unreadable

------------------------------------------------------------------------------
(* Request targets: the second word of the request line, split on "/".     *)

Target(abs, segs, slash) == [abs |-> abs, segs |-> segs, slash |-> slash]

Targets ==
    { Target(TRUE, <<>>, TRUE),                                  \* /
      Target(TRUE, <<"index.html">>, FALSE),                     \* /index.html
      Target(TRUE, <<"index.html">>, TRUE),                      \* /index.html/
      Target(TRUE, <<"server.py">>, FALSE),                      \* /server.py
      Target(TRUE, <<"locked.bin">>, FALSE),                     \* /locked.bin
      Target(TRUE, <<"docs">>, FALSE),                           \* /docs
      Target(TRUE, <<"docs">>, TRUE),                            \* /docs/
      Target(TRUE, <<"assets">>, TRUE),                          \* /assets/
      Target(TRUE, <<"assets", "app.js">>, FALSE),               \* /assets/app.js
      Target(TRUE, <<"nofile">>, FALSE),                         \* /nofile
      Target(TRUE, <<"..", "..", "etc", "passwd">>, FALSE),      \* /../../etc/passwd
      Target(FALSE, <<"..", "..", "etc", "passwd">>, FALSE),     \* ../../etc/passwd
      Target(FALSE, <<"%2e%2e", "%2e%2e", "etc", "passwd">>, FALSE),
      Target(TRUE, <<"docs", "..", "..", "index.html">>, FALSE), \* /docs/../../index.html
      Target(FALSE, <<"..", "docs">>, TRUE) }                    \* ../docs/

\* Whether a request target tries to climb out of the directory it is resolved in.
RECURSIVE MinDepth(_, _)
MinDepth(segs, d) ==
    IF segs = <<>> THEN d
    ELSE LET w == Head(segs)
             d2 == IF w \in {"..", "%2e%2e"} THEN d - 1
                   ELSE IF w \in {".", ""} THEN d ELSE d + 1
         IN  IF d2 < 0 THEN d2 ELSE MinDepth(Tail(segs), d2)

Escapes(t) == MinDepth(t.segs, 0) < 0

------------------------------------------------------------------------------
(* Requests: what a client may write on an accepted connection.            *)

Commands == {"GET", "HEAD", "OPTIONS", "POST"}
Versions == {"HTTP/1.0", "HTTP/1.1", "HTTP/2.0", "FOO/1.0"}

\* The request's header block: well formed or too many header fields, and the
\* conditional headers it carries (since: the If-Modified-Since time).
HeaderBlock(ok, ims, since, inm) ==
    [ok |-> ok, ims |-> ims, since |-> since, inm |-> inm]

PlainHeaders == HeaderBlock(TRUE, FALSE, 0, FALSE)

\* Every file of the model was last modified at time 2.
Mtime(p) == 2

HeaderBlocks ==
    { PlainHeaders, HeaderBlock(FALSE, FALSE, 0, FALSE),
      HeaderBlock(TRUE, TRUE, 1, FALSE), HeaderBlock(TRUE, TRUE, 2, FALSE),
      HeaderBlock(TRUE, TRUE, 2, TRUE) }

\* line: "eof" (closed without a byte), "long" (more than 65536 bytes), "text".
\* nwords: the number of whitespace-separated words of the request line; the
\* words are command, target, (extra,) version as far as nwords reaches.
Request(line, nwords, command, target, version, headers) ==
    [line |-> line, nwords |-> nwords, command |-> command, target |-> target,
     version |-> version, headers |-> headers]

RootTarget == Target(TRUE, <<>>, TRUE)

Requests ==
    { Request("eof", 0, "", RootTarget, "", PlainHeaders),
      Request("long", 3, "GET", RootTarget, "HTTP/1.1", PlainHeaders),
      Request("text", 0, "", RootTarget, "", PlainHeaders),
      Request("text", 1, "GET", RootTarget, "", PlainHeaders) }
    \cup { Request("text", 2, c, t, "", PlainHeaders) : c \in Commands, t \in Targets }
    \cup { Request("text", 3, c, t, v, PlainHeaders) :
             c \in Commands, t \in Targets, v \in Versions }
    \cup { Request("text", 3, c, t, "HTTP/1.1", hb) :
             c \in Commands, t \in Targets, hb \in HeaderBlocks }
    \cup { Request("text", 4, "GET", RootTarget, v, PlainHeaders) : v \in Versions }

------------------------------------------------------------------------------
(* The handler object: BaseHTTPRequestHandler's fields and what it has     *)
(* written to the socket (the wire fields), its filesystem use, and the     *)
(* codes it logged through log_error.                                      *)

HttpHeader(k, v) == [name |-> k, value |-> v]

NewHandler(dir) ==
    [directory |-> dir, request_version |-> "", command |-> "",
     bufStatus |-> 0, buf |-> <<>>,
     wireStatus |-> 0, wireHeaders |-> <<>>, body |-> <<>>,
     translated |-> <<>>, opened |-> <<>>, errors |-> <<>>]

\* BaseHTTPRequestHandler.send_response_only
send_response_only(h, code) ==
    IF h.request_version # "HTTP/0.9" THEN [h EXCEPT !.bufStatus = code] ELSE h

\* BaseHTTPRequestHandler.send_header
send_header(h, keyword, value) ==
    IF h.request_version # "HTTP/0.9"
    THEN [h EXCEPT !.buf = Append(@, HttpHeader(keyword, value))]
    ELSE h

\* BaseHTTPRequestHandler.flush_headers
flush_headers(h) ==
    [h EXCEPT !.wireStatus = IF h.bufStatus # 0 THEN h.bufStatus ELSE @,
              !.wireHeaders = @ \o h.buf,
              !.bufStatus = 0,
              !.buf = <<>>]

\* BaseHTTPRequestHandler.end_headers
base_end_headers(h) ==
    IF h.request_version # "HTTP/0.9" THEN flush_headers(h) ELSE h

\* end_headers with its third send_header call left out.
end_headers_two_headers(h) ==
    base_end_headers(
        send_header(
            send_header(h, "Access-Control-Allow-Origin", "*"),
            "Access-Control-Allow-Methods", "GET, POST, OPTIONS"))

\* server.py lines 11-15: CORSRequestHandler.end_headers
end_headers(h) ==
    base_end_headers(
        send_header(
            send_header(
                send_header(h, "Access-Control-Allow-Origin", "*"),
                "Access-Control-Allow-Methods", "GET, POST, OPTIONS"),
            "Access-Control-Allow-Headers", "Content-Type"))

\* BaseHTTPRequestHandler.send_response
send_response(h, code) ==
    send_header(send_header(send_response_only(h, code),
                            "Server", "SimpleHTTP/0.6 Python/3.11"),
                "Date", "now")

wfile_write(h, bytes) == [h EXCEPT !.body = @ \o bytes]

\* The HTML error page: here the three digits of the code.
ErrorPage(code) ==
    <<48 + (code \div 100), 48 + ((code \div 10) % 10), 48 + (code % 10)>>

\* BaseHTTPRequestHandler.send_error
send_error(h, code) ==
    LET h0 == [h EXCEPT !.errors = Append(@, code)]
        h1 == send_header(send_response(h0, code), "Connection", "close")
        hasBody == code >= 200 /\ code \notin {204, 205, 304}
        h2 == IF hasBody
              THEN send_header(
                       send_header(h1, "Content-Type", "text/html;charset=utf-8"),
                       "Content-Length", ToString(Len(ErrorPage(code))))
              ELSE h1
        h3 == end_headers(h2)
    IN  IF h.command # "HEAD" /\ hasBody THEN wfile_write(h3, ErrorPage(code)) ELSE h3

\* do_OPTIONS answering 204 and skipping the end_headers call.
do_OPTIONS_no_end_headers(h, req) == send_response(h, 204)

\* server.py lines 17-19: CORSRequestHandler.do_OPTIONS
do_OPTIONS(h, req) == end_headers(send_response(h, 200))

------------------------------------------------------------------------------
(* SimpleHTTPRequestHandler: path translation and file serving.            *)

\* urllib.parse.unquote on one path segment.
Unquote(w) == IF w = "%2e%2e" THEN ".." ELSE IF w = "%2e" THEN "." ELSE w

\* posixpath.normpath: abs says whether the path starts with "/".
RECURSIVE NormPathFrom(_, _, _)
NormPathFrom(abs, new_comps, comps) ==
    IF comps = <<>> THEN new_comps
    ELSE LET comp == Head(comps)
             rest == Tail(comps)
         IN  IF comp \in {"", "."} THEN NormPathFrom(abs, new_comps, rest)
             ELSE IF \/ comp # ".."
                     \/ (~abs /\ new_comps = <<>>)
                     \/ (new_comps # <<>> /\ new_comps[Len(new_comps)] = "..")
                  THEN NormPathFrom(abs, Append(new_comps, comp), rest)
                  ELSE IF new_comps # <<>>
                       THEN NormPathFrom(abs, SubSeq(new_comps, 1, Len(new_comps) - 1), rest)
                       ELSE NormPathFrom(abs, new_comps, rest)

NormPath(abs, comps) == NormPathFrom(abs, <<>>, comps)

\* translate_path's loop without its curdir/pardir test.
KeepAnyWord(w) == TRUE

\* translate_path's loop keeps a word unless it is os.curdir or os.pardir.
KeepWord(w) == w \notin {".", ".."}

\* SimpleHTTPRequestHandler.translate_path
translate_path(directory, target) ==
    LET unquoted == [i \in 1..Len(target.segs) |-> Unquote(target.segs[i])]
        words == SelectSeq(NormPath(target.abs, unquoted), KeepWord)
    IN  [segs |-> directory \o words, slash |-> target.slash]

\* posixpath.splitext of the last name of a path.
Ext(fp) ==
    LET name == IF fp.segs = <<>> THEN "" ELSE fp.segs[Len(fp.segs)]
    IN  CASE name = "index.html" -> ".html"
          [] name = "server.py" -> ".py"
          [] name = "app.js" -> ".js"
          [] name = "locked.bin" -> ".bin"
          [] OTHER -> ""

\* SimpleHTTPRequestHandler.guess_type (mimetypes' table, then the default)
guess_type(fp) ==
    CASE Ext(fp) = ".html" -> "text/html"
      [] Ext(fp) = ".py" -> "text/x-python"
      [] Ext(fp) = ".js" -> "text/javascript"
      [] OTHER -> "application/octet-stream"

\* The generated listing page of a directory: one byte per entry after a marker.
ListingPage(dir) ==
    <<76>> \o [i \in 1..Cardinality({p \in Files \cup Dirs :
                   Len(p) = Len(dir) + 1 /\ IsPrefix(dir, p)}) |-> 105]

\* What send_head hands back to do_GET / do_HEAD: a file object or None.
NoFile == [open |-> FALSE, bytes |-> <<>>]
FileObj(bytes) == [open |-> TRUE, bytes |-> bytes]

\* SimpleHTTPRequestHandler.list_directory
list_directory(h, fp) ==
    LET page == ListingPage(OsResolve(fp.segs))
        h1 == send_header(
                  send_header(send_response(h, 200),
                              "Content-type", "text/html; charset=utf-8"),
                  "Content-Length", ToString(Len(page)))
    IN  [h |-> end_headers(h1), f |-> FileObj(page)]

\* The part of send_head from guess_type on, for the path it settled on.
send_file_head(h, fp, headers) ==
    IF fp.slash THEN [h |-> send_error(h, 404), f |-> NoFile]
    ELSE IF ~CanOpen(fp) THEN [h |-> send_error(h, 404), f |-> NoFile]
    ELSE LET real == OsResolve(fp.segs)
             h0 == [h EXCEPT !.opened = Append(@, real)]
         IN  IF headers.ims /\ ~headers.inm /\ Mtime(real) <= headers.since
             THEN [h |-> end_headers(send_response(h0, 304)), f |-> NoFile]
             ELSE [h |-> end_headers(
                             send_header(
                                 send_header(
                                     send_header(send_response(h0, 200),
                                                 "Content-type", guess_type(fp)),
                                     "Content-Length", ToString(Len(FileBytes(real)))),
                                 "Last-Modified", ToString(Mtime(real)))),
                   f |-> FileObj(FileBytes(real))]

\* An index lookup that knows index.htm only.
index_pages_htm_only == <<"index.htm">>

\* send_head's loop: for index in "index.html", "index.htm"
index_pages == <<"index.html", "index.htm">>

\* The first index page of directory fp that is a regular file, as a sequence
\* of at most one path.
RECURSIVE FindIndex(_, _)
FindIndex(fp, names) ==
    IF names = <<>> THEN <<>>
    ELSE LET index == [segs |-> fp.segs \o <<Head(names)>>, slash |-> FALSE]
         IN  IF IsFile(index) THEN <<index>> ELSE FindIndex(fp, Tail(names))

\* SimpleHTTPRequestHandler.send_head
send_head(h, req) ==
    LET fp == translate_path(h.directory, req.target)
        h0 == [h EXCEPT !.translated = Append(@, fp)]
        found == FindIndex(fp, index_pages)
    IN  IF IsDir(fp)
        THEN IF ~req.target.slash
             THEN [h |-> end_headers(
                             send_header(
                                 send_header(send_response(h0, 301),
                                             "Location", "target/"),
                                 "Content-Length", "0")),
                   f |-> NoFile]
             ELSE IF found # <<>> THEN send_file_head(h0, found[1], req.headers)
             ELSE list_directory(h0, fp)
        ELSE send_file_head(h0, fp, req.headers)

\* copyfile through a text-mode file: carriage returns are lost.
NotCR(b) == b # 13
copyfile_text_mode(h, f) == wfile_write(h, SelectSeq(f.bytes, NotCR))

\* SimpleHTTPRequestHandler.copyfile (shutil.copyfileobj to the socket)
copyfile(h, f) == wfile_write(h, f.bytes)

\* SimpleHTTPRequestHandler.do_GET
do_GET(h, req) ==
    LET r == send_head(h, req)
    IN  IF r.f.open THEN copyfile(r.h, r.f) ELSE r.h

\* SimpleHTTPRequestHandler.do_HEAD
do_HEAD(h, req) == send_head(h, req).h

------------------------------------------------------------------------------
(* BaseHTTPRequestHandler: parsing and dispatch of one request.            *)

\* The (major, minor) pair parse_request reads from the version word; <<>>
\* when the word is not HTTP/<digits>.<digits> (ValueError).
VersionNumber(v) ==
    CASE v = "HTTP/1.0" -> <<1, 0>>
      [] v = "HTTP/1.1" -> <<1, 1>>
      [] v = "HTTP/2.0" -> <<2, 0>>
      [] OTHER -> <<>>

\* BaseHTTPRequestHandler.parse_request
parse_request(h, req) ==
    LET h0 == [h EXCEPT !.command = "", !.request_version = "HTTP/0.9"]
        vn == VersionNumber(req.version)
        h1 == IF req.nwords >= 3 THEN [h0 EXCEPT !.request_version = req.version]
              ELSE h0
        h2 == [h1 EXCEPT !.command = req.command]
    IN  IF req.nwords = 0 THEN [ok |-> FALSE, h |-> h0]
        ELSE IF req.nwords >= 3 /\ vn = <<>>
             THEN [ok |-> FALSE, h |-> send_error(h0, 400)]
        ELSE IF req.nwords >= 3 /\ vn[1] >= 2
             THEN [ok |-> FALSE, h |-> send_error(h0, 505)]
        ELSE IF ~(2 <= req.nwords /\ req.nwords <= 3)
             THEN [ok |-> FALSE, h |-> send_error(h1, 400)]
        ELSE IF req.nwords = 2 /\ req.command # "GET"
             THEN [ok |-> FALSE, h |-> send_error(h1, 400)]
        ELSE IF ~req.headers.ok
             THEN [ok |-> FALSE, h |-> send_error(h2, 431)]
        ELSE [ok |-> TRUE, h |-> h2]

\* The commands the handler class has a do_<command> method for:
\* do_GET and do_HEAD inherited, do_OPTIONS defined at server.py line 17.
HandlerMethods == {"GET", "HEAD", "OPTIONS"}

\* BaseHTTPRequestHandler.handle_one_request, run once per connection:
\* protocol_version is HTTP/1.0, so close_connection stays true.
handle_one_request(directory, req) ==
    LET h == NewHandler(directory)
    IN  IF req.line = "long" THEN send_error(h, 414)
        ELSE IF req.line = "eof" THEN h
        ELSE LET p == parse_request(h, req)
             IN  IF ~p.ok THEN p.h
                 ELSE IF p.h.command \notin HandlerMethods THEN send_error(p.h, 501)
                 ELSE IF p.h.command = "GET" THEN do_GET(p.h, req)
                 ELSE IF p.h.command = "HEAD" THEN do_HEAD(p.h, req)
                 ELSE do_OPTIONS(p.h, req)

------------------------------------------------------------------------------
(* The process: serve() and the clients of its listening socket.           *)

VARIABLES
    pc,           \* where serve() is: "start", "chdir", "bound", "serving", "exited"
    cwd,          \* the process's working directory
    heldPorts,    \* the TCP ports other processes already listen on
    bindAttempts, \* how many times the listener's bind was attempted
    stdout,       \* the lines printed
    stderr,       \* the uncaught exception reported at exit, if any
    exit,         \* how the process ended
    conns,        \* per client connection: its state and its handler's directory
    backlog,      \* connections completed by the kernel, not yet accepted
    serverBusy,   \* the serving thread is inside finish_request
    last,         \* the exchange just completed, until the next accept
    failedBefore  \* history: an earlier exchange ended in a request-level failure

vars == <<pc, cwd, heldPorts, bindAttempts, stdout, stderr, exit, conns, backlog,
          serverBusy, last, failedBefore>>

\* How the process ended: still running, exit(code), or killed by a signal.
Running == [how |-> "running", code |-> 0, signal |-> ""]
Exited(code) == [how |-> "exit", code |-> code, signal |-> ""]
Killed(sig) == [how |-> "signal", code |-> 0, signal |-> sig]

NoRequest == Request("eof", 0, "", RootTarget, "", PlainHeaders)
NoExchange == [conn |-> 0, req |-> NoRequest, res |-> NewHandler(<<>>)]

NewConn == [st |-> "new", sent |-> FALSE, dir |-> <<>>]

Init ==
    /\ pc = "start"
    /\ cwd \in LaunchDirs
    /\ heldPorts \in {{}, {PORT}, {PORT + 1}}
    /\ bindAttempts = 0
    /\ stdout = <<>>
    /\ stderr = ""
    /\ exit = Running
    /\ conns = [c \in Conns |-> NewConn]
    /\ backlog = <<>>
    /\ serverBusy = FALSE
    /\ last = NoExchange
    /\ failedBefore = FALSE

\* Whether a handler wrote anything to its connection.
Responded(res) == res.wireStatus # 0 \/ res.wireHeaders # <<>> \/ res.body # <<>>

\* An exchange that ended in a request-level failure: the handler logged an
\* error code, or gave the client no reply.
Failed(x) == x.conn # 0 /\ (x.res.errors # <<>> \/ ~Responded(x.res))

\* serve() without its os.chdir call: the working directory stays as it was.
ChdirSkipped == cwd

\* server.py lines 26-27: web_dir = dirname(abspath(__file__)); os.chdir(web_dir)
ChdirTarget == WebDir

Chdir ==
    /\ pc = "start"
    /\ cwd' = ChdirTarget
    /\ pc' = "chdir"
    /\ UNCHANGED <<heldPorts, bindAttempts, stdout, stderr, exit, conns, backlog,
                   serverBusy, last, failedBefore>>

\* A failed bind swallowed: serve() goes on as if the listener were bound.
BindFailureIgnored ==
    /\ pc' = "bound"
    /\ UNCHANGED <<exit, stderr>>

\* server.py line 29: what follows a failed bind.  TCPServer.__init__ closes
\* the socket and re-raises; nothing in serve() catches the OSError.
BindFailure ==
    /\ pc' = "exited"
    /\ exit' = Exited(1)
    /\ stderr' = "OSError: [Errno 98] Address already in use"

\* server.py line 29: socketserver.TCPServer(("", PORT), Handler)
Bind ==
    /\ pc = "chdir"
    /\ bindAttempts' = bindAttempts + 1
    /\ IF PORT \in heldPorts
       THEN BindFailure
       ELSE /\ pc' = "bound"
            /\ UNCHANGED <<exit, stderr>>
    /\ UNCHANGED <<cwd, heldPorts, stdout, conns, backlog, serverBusy, last,
                   failedBefore>>

\* server.py lines 30-33: the four print calls
Banner ==
    /\ pc = "bound"
    /\ stdout' = stdout \o <<"QuantumLayer Platform Web UI",
                             "Server running at http://localhost:8080",
                             "Open http://localhost:8080 in your browser",
                             "Press Ctrl+C to stop">>
    /\ pc' = "serving"
    /\ UNCHANGED <<cwd, heldPorts, bindAttempts, stderr, exit, conns, backlog,
                   serverBusy, last, failedBefore>>

\* A client connects: the kernel completes the handshake once the socket listens.
ClientConnect(c) ==
    /\ pc \in {"bound", "serving"}
    /\ conns[c].st = "new"
    /\ conns' = [conns EXCEPT ![c].st = "queued"]
    /\ backlog' = Append(backlog, c)
    /\ UNCHANGED <<pc, cwd, heldPorts, bindAttempts, stdout, stderr, exit,
                   serverBusy, last, failedBefore>>

\* A client writes its request (or closes its sending side).
ClientSend(c) ==
    /\ pc \in {"bound", "serving"}
    /\ conns[c].st \in {"queued", "accepted"}
    /\ ~conns[c].sent
    /\ conns' = [conns EXCEPT ![c].sent = TRUE]
    /\ UNCHANGED <<pc, cwd, heldPorts, bindAttempts, stdout, stderr, exit, backlog,
                   serverBusy, last, failedBefore>>

\* A ThreadingMixIn server: process_request starts a thread and returns.
HandledInOwnThread == FALSE

\* server.py line 29: the server class is TCPServer, whose process_request
\* calls finish_request in the serving thread (no ThreadingMixIn).
HandledInServingThread == TRUE

\* server.py line 34, serve_forever: accept one connection and construct its
\* handler, whose directory is os.getcwd() at that moment.
Accept ==
    /\ pc = "serving"
    /\ ~serverBusy
    /\ backlog # <<>>
    /\ LET c == Head(backlog)
       IN  conns' = [conns EXCEPT ![c].st = "accepted", ![c].dir = cwd]
    /\ backlog' = Tail(backlog)
    /\ serverBusy' = HandledInServingThread
    /\ last' = NoExchange
    /\ failedBefore' = (failedBefore \/ Failed(last))
    /\ UNCHANGED <<pc, cwd, heldPorts, bindAttempts, stdout, stderr, exit>>

\* httpd.handle_request() in place of serve_forever(): one request, then return.
handle_request_next == "exited"

\* server.py line 34: httpd.serve_forever() returns to its select loop after
\* every request, whatever the handler sent (handle_error swallows a
\* handler's exception).
serve_forever_next == "serving"

\* The handler of an accepted connection reads the request the client has
\* sent, answers it and the connection is shut down.
Handle(c) ==
    /\ pc = "serving"
    /\ conns[c].st = "accepted"
    /\ conns[c].sent
    /\ \E req \in Requests :
           last' = [conn |-> c, req |-> req,
                    res |-> handle_one_request(conns[c].dir, req)]
    /\ conns' = [conns EXCEPT ![c].st = "served"]
    /\ serverBusy' = FALSE
    /\ pc' = serve_forever_next
    \* serve() returning is the end of the program: exit code 0
    /\ exit' = IF pc' = "exited" THEN Exited(0) ELSE exit
    /\ UNCHANGED <<cwd, heldPorts, bindAttempts, stdout, stderr, backlog,
                   failedBefore>>

\* serve() wrapped in try/except KeyboardInterrupt: a clean exit.
InterruptCaught(sig) == Exited(0)

\* server.py lines 34-37: nothing catches KeyboardInterrupt, so CPython
\* reports it and ends the process by the signal; SIGTERM has no handler.
InterruptExit(sig) == Killed(sig)

Signals == {"SIGINT", "SIGTERM"}

\* An external interrupt reaches the running process.
Interrupt(sig) ==
    /\ pc # "exited"
    /\ pc' = "exited"
    /\ exit' = InterruptExit(sig)
    /\ stderr' = IF sig = "SIGINT" THEN "KeyboardInterrupt" ELSE ""
    /\ conns' = [c \in Conns |->
                   IF conns[c].st \in {"queued", "accepted"}
                   THEN [conns[c] EXCEPT !.st = "aborted"] ELSE conns[c]]
    /\ backlog' = <<>>
    /\ serverBusy' = FALSE
    /\ UNCHANGED <<cwd, heldPorts, bindAttempts, stdout, last, failedBefore>>

Next ==
    \/ Chdir
    \/ Bind
    \/ Banner
    \/ \E c \in Conns : ClientConnect(c)
    \/ \E c \in Conns : ClientSend(c)
    \/ Accept
    \/ \E c \in Conns : Handle(c)
    \/ \E sig \in Signals : Interrupt(sig)

Spec == Init /\ [][Next]_vars

------------------------------------------------------------------------------
(* Properties.                                                             *)

\* The values a response carries for header k.
HeaderValues(res, k) ==
    { res.wireHeaders[i].value :
        i \in { j \in 1..Len(res.wireHeaders) : res.wireHeaders[j].name = k } }

HeaderCount(res, k) ==
    Cardinality({ j \in 1..Len(res.wireHeaders) : res.wireHeaders[j].name = k })

\* The three CORS headers, each once and with its exact value.
CorsTriple(res) ==
    /\ HeaderValues(res, "Access-Control-Allow-Origin") = {"*"}
    /\ HeaderValues(res, "Access-Control-Allow-Methods") = {"GET, POST, OPTIONS"}
    /\ HeaderValues(res, "Access-Control-Allow-Headers") = {"Content-Type"}
    /\ HeaderCount(res, "Access-Control-Allow-Origin") = 1
    /\ HeaderCount(res, "Access-Control-Allow-Methods") = 1
    /\ HeaderCount(res, "Access-Control-Allow-Headers") = 1

\* A request the parser accepts with a version: <command> <target> HTTP/1.x
\* followed by a header block it can read.
WellFormed(req) ==
    /\ req.line = "text"
    /\ req.nwords = 3
    /\ req.version \in {"HTTP/1.0", "HTTP/1.1"}
    /\ req.headers.ok

\* C1 as stated: every response the server sends, whatever the method and the
\* status, carries the three CORS headers with their exact values.
C1_EveryResponseHasCors ==
    (last.conn # 0 /\ Responded(last.res)) => CorsTriple(last.res)

\* C1, amended: every response that has a status line carries the three CORS
\* headers with their exact values, whatever the method (GET, HEAD, OPTIONS,
\* unsupported ones) and the status; a response sent in HTTP/0.9 form (to a
\* version-less request line, or to a request line rejected before its version
\* is accepted) has no status line and carries no header at all.
C1_CorsOnEveryStatusLine ==
    last.conn # 0 =>
        /\ last.res.wireStatus # 0 => CorsTriple(last.res)
        /\ last.res.wireStatus = 0 =>
              /\ last.res.wireHeaders = <<>>
              /\ Responded(last.res) => last.res.request_version = "HTTP/0.9"
        /\ last.res.request_version = "HTTP/0.9" => last.res.wireStatus = 0

\* C1's case: an unsupported method answered by an error status with the triple.
C1_Witness ==
    /\ last.conn # 0
    /\ last.req.command = "POST"
    /\ last.res.wireStatus = 501
    /\ CorsTriple(last.res)

\* C2: a well-formed OPTIONS request to any path is answered 200 with an empty
\* body and the three CORS headers; no path is translated and no file opened.
C2_OptionsIsEmpty200 ==
    (last.conn # 0 /\ last.req.command = "OPTIONS" /\ WellFormed(last.req)) =>
        /\ last.res.wireStatus = 200
        /\ last.res.body = <<>>
        /\ CorsTriple(last.res)
        /\ last.res.translated = <<>>
        /\ last.res.opened = <<>>
        /\ last.res.errors = <<>>

\* C2's case: OPTIONS on a target that climbs out of the base directory.
C2_Witness ==
    /\ last.conn # 0
    /\ last.req.command = "OPTIONS"
    /\ WellFormed(last.req)
    /\ Escapes(last.req.target)
    /\ last.res.wireStatus = 200

\* The connections whose handler is running.
BeingHandled == { c \in Conns : conns[c].st = "accepted" }

\* A handler blocked on its connection: the client has not sent its request.
Stalled(c) == conns[c].st = "accepted" /\ ~conns[c].sent

\* C3 as stated: one thread per accepted connection, so while the handling of
\* one connection is blocked, a connection waiting in the listen queue can
\* still be accepted (and then served).
C3_OthersServedWhileOneBlocks ==
    (pc = "serving" /\ backlog # <<>> /\ \E a \in Conns : Stalled(a))
        => ENABLED Accept

\* C3, amended: connections are handled one at a time, in the serving thread
\* itself: at most one connection is being handled at any moment, and while
\* the handling of one connection is blocked, a request arriving on another
\* connection waits in the listen queue; it is accepted and served only after
\* the first connection has been finished.
C3_OneConnectionAtATime ==
    /\ Cardinality(BeingHandled) <= 1
    /\ BeingHandled # {} => (serverBusy /\ ~ENABLED Accept)

\* C3's case: one handler blocked by a stalled client while another client's
\* request waits, already sent.
C3_Witness ==
    /\ pc = "serving"
    /\ \E a, b \in Conns :
          /\ Stalled(a)
          /\ conns[b].st = "queued"
          /\ conns[b].sent

\* The contents of the files that lie outside the base directory.
OutsideBytes == { FileBytes(p) : p \in { q \in Files : ~IsPrefix(WebDir, q) } }

\* The exchange just completed was dispatched to do_GET.
ServedGet == last.conn # 0 /\ last.res.command = "GET" /\ last.res.translated # <<>>

\* C4 as stated: a GET whose path segments try to leave the base directory is
\* rejected with 404 or 403, and no body is a file from outside it.
C4_EscapingGetRejected ==
    (ServedGet /\ WellFormed(last.req) /\ Escapes(last.req.target)) =>
        /\ last.res.wireStatus \in {403, 404}
        /\ last.res.body \notin OutsideBytes

\* C4, amended: a GET whose path segments try to leave the base directory
\* cannot leave it: the escaping segments are dropped and what remains is
\* resolved under the base directory, so the request is answered as that path
\* is (404 when nothing exists there, as for ../../etc/passwd; the file's
\* content with 200 when a file exists there, as for /docs/../../index.html);
\* it is never answered 403.  For every request, the body returned is never
\* the content of a file located outside the base directory.
C4_NeverOutsideBaseDirectory ==
    last.conn # 0 =>
        /\ \A i \in 1..Len(last.res.translated) :
              /\ IsPrefix(WebDir, last.res.translated[i].segs)
              /\ \A j \in 1..Len(last.res.translated[i].segs) :
                    last.res.translated[i].segs[j] \notin {".", ".."}
        /\ \A i \in 1..Len(last.res.opened) : IsPrefix(WebDir, last.res.opened[i])
        /\ last.res.body \notin OutsideBytes
        /\ (ServedGet /\ WellFormed(last.req) /\ Escapes(last.req.target)) =>
              /\ last.res.wireStatus \in {200, 301, 304, 404}
              /\ (last.res.wireStatus = 404) <=>
                    (~IsDir(last.res.translated[1]) /\ ~CanOpen(last.res.translated[1]))

\* C4's case: GET ../../etc/passwd, answered 404 without opening any file.
C4_Witness ==
    /\ ServedGet
    /\ WellFormed(last.req)
    /\ last.req.target = Target(FALSE, <<"..", "..", "etc", "passwd">>, FALSE)
    /\ last.res.wireStatus = 404
    /\ last.res.opened = <<>>

\* A GET request the parser accepts: with an HTTP/1.x version, or without
\* any version (HTTP/0.9).
SimpleGet(req) == req.line = "text" /\ req.nwords = 2 /\ req.command = "GET"
VersionedGet(req) == WellFormed(req) /\ req.command = "GET"

\* Where a target leads under the base directory.
Resolved(t) == translate_path(WebDir, t)
ResolvesToFile(t) == IsFile(Resolved(t))
ResolvedFile(t) == OsResolve(Resolved(t).segs)

\* The request's If-Modified-Since condition holds for file p.
NotModifiedSince(req, p) ==
    req.headers.ims /\ ~req.headers.inm /\ Mtime(p) <= req.headers.since

\* The content type RFC-registered for the extensions of the model's files.
ContentTypeMatches(res, fp) ==
    /\ HeaderCount(res, "Content-type") = 1
    /\ Ext(fp) = ".html" => HeaderValues(res, "Content-type") = {"text/html"}
    /\ Ext(fp) = ".js" => HeaderValues(res, "Content-type") = {"text/javascript"}
    /\ Ext(fp) = ".py" => HeaderValues(res, "Content-type") = {"text/x-python"}

\* C5 as stated: a GET for a path that resolves to an existing regular file
\* under the base directory returns 200, the file's exact bytes and the
\* content type of its extension.  (Stated here for GETs with an HTTP/1.x
\* version and files the server can open, where it already fails.)
C5_GetFileIs200 ==
    (last.conn # 0 /\ VersionedGet(last.req) /\ ResolvesToFile(last.req.target)
       /\ ResolvedFile(last.req.target) \notin Unreadable) =>
        /\ last.res.wireStatus = 200
        /\ last.res.body = FileBytes(ResolvedFile(last.req.target))
        /\ ContentTypeMatches(last.res, Resolved(last.req.target))

\* C5, amended: a GET sent with an HTTP/1.x version for a path that resolves
\* to an existing regular file under the base directory that the server can
\* open returns 200, the file's exact bytes and the content type of its
\* extension, unless the request carries an If-Modified-Since time that is not
\* earlier than the file's modification time (and no If-None-Match): then it
\* returns 304 with an empty body.  A version-less (HTTP/0.9) GET gets the
\* file's exact bytes with no status line and no headers, and a file the
\* server cannot open is answered 404.
C5_GetFileAmended ==
    (last.conn # 0 /\ ResolvesToFile(last.req.target)) =>
        LET p == ResolvedFile(last.req.target)
            r == last.res
        IN  /\ (VersionedGet(last.req) /\ p \notin Unreadable
                  /\ ~NotModifiedSince(last.req, p)) =>
                  /\ r.wireStatus = 200
                  /\ r.body = FileBytes(p)
                  /\ ContentTypeMatches(r, Resolved(last.req.target))
                  /\ HeaderValues(r, "Content-Length") = {ToString(Len(FileBytes(p)))}
            /\ (VersionedGet(last.req) /\ p \notin Unreadable
                  /\ NotModifiedSince(last.req, p)) =>
                  /\ r.wireStatus = 304
                  /\ r.body = <<>>
            /\ (SimpleGet(last.req) /\ p \notin Unreadable) =>
                  /\ r.wireStatus = 0
                  /\ r.wireHeaders = <<>>
                  /\ r.body = FileBytes(p)
            /\ (VersionedGet(last.req) /\ p \in Unreadable) => r.wireStatus = 404

\* C5's case: GET /index.html HTTP/1.x answered 200 with the file's bytes.
C5_Witness ==
    /\ last.conn # 0
    /\ VersionedGet(last.req)
    /\ last.req.target = Target(TRUE, <<"index.html">>, FALSE)
    /\ last.res.wireStatus = 200
    /\ last.res.body = IndexHtmlBytes
    /\ HeaderValues(last.res, "Content-type") = {"text/html"}

\* A target that leads to a directory holding an index file, and that file.
IndexOf(t) ==
    LET d == OsResolve(Resolved(t).segs)
    IN  IF d \o <<"index.html">> \in Files THEN <<d \o <<"index.html">>>>
        ELSE IF d \o <<"index.htm">> \in Files THEN <<d \o <<"index.htm">>>>
        ELSE <<>>
ResolvesToIndexedDir(t) == IsDir(Resolved(t)) /\ IndexOf(t) # <<>>

\* C6 as stated: a GET for a directory under the base directory that contains
\* an index file returns that file's content with status 200.  (Stated here
\* for unconditional GETs with an HTTP/1.x version, where it already fails.)
C6_GetDirectoryIs200 ==
    (last.conn # 0 /\ VersionedGet(last.req) /\ ~last.req.headers.ims
       /\ ResolvesToIndexedDir(last.req.target)) =>
        /\ last.res.wireStatus = 200
        /\ last.res.body = FileBytes(IndexOf(last.req.target)[1])

\* C6, amended: a GET sent with an HTTP/1.x version for a directory under the
\* base directory that contains an index file (index.html, else index.htm)
\* returns that file's content with status 200 when the request path ends
\* with "/", unless an If-Modified-Since condition holds for the index file
\* (then 304 with an empty body); when the request path does not end with
\* "/", it returns a 301 redirect with a Location header and an empty body.
\* A version-less (HTTP/0.9) GET of such a path ending with "/" gets the
\* index file's bytes with no status line and no headers.
C6_GetDirectoryAmended ==
    (last.conn # 0 /\ ResolvesToIndexedDir(last.req.target)) =>
        LET p == IndexOf(last.req.target)[1]
            r == last.res
            slash == last.req.target.slash
        IN  /\ (VersionedGet(last.req) /\ slash /\ ~NotModifiedSince(last.req, p)) =>
                  /\ r.wireStatus = 200
                  /\ r.body = FileBytes(p)
                  /\ HeaderValues(r, "Content-type") = {"text/html"}
            /\ (VersionedGet(last.req) /\ slash /\ NotModifiedSince(last.req, p)) =>
                  /\ r.wireStatus = 304
                  /\ r.body = <<>>
            /\ (VersionedGet(last.req) /\ ~slash) =>
                  /\ r.wireStatus = 301
                  /\ r.body = <<>>
                  /\ HeaderCount(r, "Location") = 1
                  /\ r.opened = <<>>
            /\ (SimpleGet(last.req) /\ slash) =>
                  /\ r.wireStatus = 0
                  /\ r.wireHeaders = <<>>
                  /\ r.body = FileBytes(p)

\* C6's case: GET /docs/ HTTP/1.x answered 200 with docs/index.html.
C6_Witness ==
    /\ last.conn # 0
    /\ VersionedGet(last.req)
    /\ last.req.target = Target(TRUE, <<"docs">>, TRUE)
    /\ last.res.wireStatus = 200
    /\ last.res.body = DocsIndexBytes
    /\ last.res.opened = <<WebDir \o <<"docs", "index.html">>>>

\* Nothing exists where the target leads.
ResolvesToNothing(t) == ~IsDir(Resolved(t)) /\ ~IsFile(Resolved(t))

\* Request lines that are not of the form <command> <target> [<version>], a
\* version word that is not HTTP/<n>.<n>, or an oversized header block.
Malformed(req) ==
    \/ req.line = "long"
    \/ /\ req.line = "text"
       /\ \/ req.nwords = 1
          \/ req.nwords >= 3 /\ VersionNumber(req.version) = <<>>
          \/ req.nwords = 4 /\ req.version \in {"HTTP/1.0", "HTTP/1.1"}
          \/ req.nwords = 3 /\ req.version \in {"HTTP/1.0", "HTTP/1.1"} /\ ~req.headers.ok

\* The request never reaches a do_<command> method: the parser rejects it.
Unparsed(req) ==
    \/ Malformed(req)
    \/ req.line = "text" /\ req.nwords = 2 /\ req.command # "GET"
    \/ req.line = "text" /\ req.nwords >= 3 /\ req.version = "HTTP/2.0"

\* The process has not crashed: it serves, or an interrupt ended it.
NotCrashed == pc = "serving" \/ (pc = "exited" /\ exit.how = "signal")

\* C7 as stated: GET of a missing path gives 404, a malformed request gives a
\* 400-class status, and such a failure neither crashes the process nor stops
\* it from accepting the next connection.
C7_FailureGivesErrorStatus ==
    last.conn # 0 =>
        /\ (VersionedGet(last.req) /\ ResolvesToNothing(last.req.target)) =>
              last.res.wireStatus = 404
        /\ Malformed(last.req) =>
              (last.res.wireStatus >= 400 /\ last.res.wireStatus <= 499)
        /\ Failed(last) => NotCrashed

\* C7, amended: a request-level failure is reported to that client only.  A
\* GET with an HTTP/1.x version for a path that does not exist gives 404.  A
\* request the parser rejects gets an error reply with code 400, 414 (request
\* line too long), 431 (header block too large) or 505 (version 2.0 or
\* later): the code is in the status line when the line is too long, the
\* header block is too large or a valid HTTP/1.x version was read before the
\* error, and otherwise the reply is only the error page, without status line
\* or headers.  An empty request line, or a connection closed before any
\* byte, gets no reply.  The process does not crash, and after any such
\* failure the serving thread is free again and accepts the next connection
\* waiting.
C7_FailureAmended ==
    /\ last.conn # 0 =>
          /\ (VersionedGet(last.req) /\ ResolvesToNothing(last.req.target)) =>
                (last.res.wireStatus = 404 /\ last.res.errors = <<404>>)
          /\ Unparsed(last.req) =>
                /\ Len(last.res.errors) = 1
                /\ last.res.errors[1] \in {400, 414, 431, 505}
                /\ Malformed(last.req) => last.res.errors[1] \in {400, 414, 431}
                /\ \/ last.res.wireStatus = last.res.errors[1]
                   \/ /\ last.res.wireStatus = 0
                      /\ last.res.wireHeaders = <<>>
                      /\ last.res.request_version = "HTTP/0.9"
                      /\ last.res.body = ErrorPage(last.res.errors[1])
                /\ last.res.translated = <<>>
          /\ (last.req.line = "eof" \/ (last.req.line = "text" /\ last.req.nwords = 0)) =>
                ~Responded(last.res)
          /\ Failed(last) =>
                /\ NotCrashed
                /\ ~serverBusy
                /\ (pc = "serving" /\ backlog # <<>>) => ENABLED Accept
                /\ pc = "serving" => \A c \in Conns : conns[c].st # "aborted"
    /\ failedBefore => NotCrashed

\* C7's case: after a failed exchange, a later connection is served with 200.
C7_Witness ==
    /\ failedBefore
    /\ last.conn # 0
    /\ last.res.wireStatus = 200
    /\ pc = "serving"

\* C8: when the port is already in use at startup, the bind is attempted once
\* and not retried; the process ends with a non-zero exit code and a bind
\* error, having printed nothing and served no request.
C8_PortInUseIsFatal ==
    PORT \in heldPorts =>
        /\ bindAttempts <= 1
        /\ pc \notin {"bound", "serving"}
        /\ stdout = <<>>
        /\ last = NoExchange
        /\ \A c \in Conns : conns[c] = NewConn
        /\ bindAttempts = 1 =>
              /\ pc = "exited"
              /\ exit.how = "exit"
              /\ exit.code # 0
              /\ stderr = "OSError: [Errno 98] Address already in use"

\* C8's case: the bind has failed.
C8_Witness ==
    /\ PORT \in heldPorts
    /\ bindAttempts = 1
    /\ pc = "exited"
    /\ exit = Exited(1)

\* The banner has been printed: the server has started.
Started == stdout # <<>>

\* C9 as stated: once started the server serves until an external interrupt,
\* and on it the process exits with exit code 0.
C9_InterruptExitsZero ==
    (Started /\ pc = "exited") => exit = Exited(0)

\* C9, amended: once started, the server blocks serving requests until it
\* receives an external interrupt; on such an interrupt the process stops
\* serving (connections in progress or waiting are dropped) and ends
\* abnormally, not with exit code 0: the interrupt is not caught, so Ctrl+C
\* ends the process by SIGINT after an uncaught KeyboardInterrupt is
\* reported, and SIGTERM kills it.
C9_InterruptIsNotCaught ==
    Started =>
        \/ pc = "serving" /\ exit = Running
        \/ /\ pc = "exited"
           /\ exit.how = "signal"
           /\ exit.signal \in Signals
           /\ exit # Exited(0)
           /\ exit.signal = "SIGINT" => stderr = "KeyboardInterrupt"
           /\ BeingHandled = {}
           /\ backlog = <<>>
           /\ ~ENABLED Next

\* C9's case: a serving process interrupted by Ctrl+C while a client waited.
C9_Witness ==
    /\ Started
    /\ pc = "exited"
    /\ exit = Killed("SIGINT")
    /\ \E c \in Conns : conns[c].st = "aborted"

\* C10: the base directory is the directory of the server program from before
\* the listener is bound, and never changes: every handler resolves its
\* request path against that directory.
C10_BaseDirectoryFixed ==
    /\ (pc \in {"chdir", "bound", "serving"} \/ bindAttempts > 0) => cwd = WebDir
    /\ \A c \in Conns : conns[c].st \in {"accepted", "served"} => conns[c].dir = WebDir
    /\ last.conn # 0 =>
          /\ last.res.directory = WebDir
          /\ \A i \in 1..Len(last.res.translated) :
                IsPrefix(WebDir, last.res.translated[i].segs)

\* C10's case: two connections served one after the other, the second one's
\* path resolved under the same base directory as the first.
C10_Witness ==
    /\ \A c \in {1, 2} : conns[c].st = "served" /\ conns[c].dir = WebDir
    /\ last.conn # 0
    /\ last.res.translated # <<>>

====
